---- MODULE Spec2Model ----
\* Leaderboard page of kramabench-website: the loader, the renderer and the
\* controls of src/unnamed/part_000 (the variant with oracle toggle and search)
\* and of src/script.js (the single-file variant), as one state machine.
\*
\* Text is a sequence of one-character strings.  A field a CSV row does not
\* have (JavaScript undefined) is the one-element sequence Missing.  Numbers
\* are fixed-point integers in units of 1/10000.
EXTENDS Integers, Sequences, FiniteSets, TLC

\* ------------------------------------------------------------------ bounds
\* Longest parsed CSV file, in rows.
MaxRows == 2
\* Most fetches in flight at once.
MaxInflight == 2

\* ------------------------------------------------------------------ text
Missing == <<"undefined">>

Digits == <<"0", "1", "2", "3", "4", "5", "6", "7", "8", "9">>

IsDigit(c) == \E i \in 1..10 : Digits[i] = c

DigitVal(c) == (CHOOSE i \in 1..10 : Digits[i] = c) - 1

IsSpace(c) == c = " "

\* String.prototype.toLowerCase, one character.
LowerChar(c) ==
  CASE c = "A" -> "a"
    [] c = "B" -> "b"
    [] c = "M" -> "m"
    [] OTHER -> c

toLowerCase(s) == [i \in 1..Len(s) |-> LowerChar(s[i])]

RECURSIVE TrimLeft(_)
TrimLeft(s) ==
  IF s # <<>> /\ IsSpace(Head(s)) THEN TrimLeft(Tail(s)) ELSE s

RECURSIVE TrimRight(_)
TrimRight(s) ==
  IF s # <<>> /\ IsSpace(s[Len(s)]) THEN TrimRight(SubSeq(s, 1, Len(s) - 1)) ELSE s

\* String.prototype.trim
trim(s) == TrimRight(TrimLeft(s))

\* String.prototype.includes
includes(s, t) ==
  \E i \in 1..(Len(s) - Len(t) + 1) : SubSeq(s, i, i + Len(t) - 1) = t

\* JavaScript truthiness of a field: undefined and '' are falsy.
Truthy(s) == s # Missing /\ s # <<>>

\* (x || '')
OrEmpty(s) == IF Truthy(s) THEN s ELSE <<>>

\* --------------------------------------------------------------- numbers
NaN == [nan |-> TRUE, v |-> 0]

Num(n) == [nan |-> FALSE, v |-> n]

\* The leading run of digits of s.
RECURSIVE DigitRun(_)
DigitRun(s) ==
  IF s # <<>> /\ IsDigit(Head(s)) THEN <<Head(s)>> \o DigitRun(Tail(s)) ELSE <<>>

RECURSIVE IntOf(_, _)
IntOf(ds, acc) ==
  IF ds = <<>> THEN acc ELSE IntOf(Tail(ds), 10 * acc + DigitVal(Head(ds)))

\* The fraction digits ds as a count of 1/10000 units (digits beyond the
\* fixed-point precision are dropped).
FracOf(ds) ==
  LET d(i) == IF i <= Len(ds) THEN DigitVal(ds[i]) ELSE 0
  IN  1000 * d(1) + 100 * d(2) + 10 * d(3) + d(4)

\* The number with sign, integer digits ip and fraction digits fp; NaN when
\* there is no digit.
Decimal(neg, ip, fp) ==
  IF ip = <<>> /\ fp = <<>> THEN NaN
  ELSE Num((IF neg THEN 0 - 1 ELSE 1) * (IntOf(ip, 0) * 10000 + FracOf(fp)))

\* The digits of the fraction that opens r, if one does.
FractionDigits(r) ==
  IF r # <<>> /\ Head(r) = "." THEN DigitRun(Tail(r)) ELSE <<>>

\* The number that opens the unsigned text u, whose integer digits are ip.
ParseDigits(neg, u, ip) ==
  Decimal(neg, ip, FractionDigits(SubSeq(u, Len(ip) + 1, Len(u))))

\* The number that opens the text t, which has no leading white space.
ParseSigned(t) ==
  IF t # <<>> /\ Head(t) \in {"-", "+"}
  THEN ParseDigits(Head(t) = "-", Tail(t), DigitRun(Tail(t)))
  ELSE ParseDigits(FALSE, t, DigitRun(t))

\* parseFloat: optional white space, optional sign, digits, optional fraction;
\* whatever follows is ignored; NaN when no digit is found.  undefined is
\* converted to the text "undefined" first, which has no digit.
parseFloat(s) == IF s = Missing THEN NaN ELSE ParseSigned(TrimLeft(s))

\* parseFloat(x) || 0
OrZero(n) == IF n.nan THEN 0 ELSE n.v

\* Number.prototype.toFixed(3) of a non-negative number, in thousandths.
toFixed3(v) == (v + 5) \div 10

\* Number.prototype.toFixed(1) of a non-negative number, in tenths.
toFixed1(v) == (v + 500) \div 1000

\* ------------------------------------------------------------------ HTML
MarkOpen == "<mark>"

MarkClose == "</mark>"

EscapeChar(c) ==
  CASE c = "&" -> <<"&", "a", "m", "p", ";">>
    [] c = "<" -> <<"&", "l", "t", ";">>
    [] c = ">" -> <<"&", "g", "t", ";">>
    [] OTHER -> <<c>>

RECURSIVE EscapeText(_)
EscapeText(s) ==
  IF s = <<>> THEN <<>> ELSE EscapeChar(Head(s)) \o EscapeText(Tail(s))

\* escapeHtml: the text is assigned to textContent (undefined becomes the
\* empty text) and read back as innerHTML.
escapeHtml(text) == IF text = Missing THEN <<>> ELSE EscapeText(text)

\* new RegExp(`(${escapeHtml(searchTerm.trim())})`, 'gi').  The model's terms
\* are over letters, space, "&", "." and "(": "." is the wildcard, and a "("
\* inside the one group the code writes is an unterminated group, for which
\* the constructor throws SyntaxError.  A compiled pattern is its atoms.
SyntaxError == <<"SyntaxError">>

RegExpOf(searchTerm) ==
  LET src == escapeHtml(trim(searchTerm))
  IN  IF \E i \in 1..Len(src) : src[i] = "(" THEN SyntaxError ELSE src

\* One atom of a pattern against one character, flag i.
AtomMatches(a, c) == a = "." \/ LowerChar(a) = LowerChar(c)

MatchesAt(atoms, s) ==
  /\ Len(s) >= Len(atoms)
  /\ \A i \in 1..Len(atoms) : AtomMatches(atoms[i], s[i])

\* text.replace(regex, '<mark>$1</mark>') with flag g: leftmost matches, not
\* overlapping, each wrapped in the highlight marker.
RECURSIVE Highlight(_, _)
Highlight(atoms, s) ==
  IF s = <<>> THEN <<>>
  ELSE IF MatchesAt(atoms, s)
       THEN <<MarkOpen>> \o SubSeq(s, 1, Len(atoms)) \o <<MarkClose>>
            \o Highlight(atoms, SubSeq(s, Len(atoms) + 1, Len(s)))
       ELSE <<Head(s)>> \o Highlight(atoms, Tail(s))

\* ------------------------------------------------------------------ rows
\* A parsed CSV row is a function from column names to text.
Field(entry, key) == IF key \in DOMAIN entry THEN entry[key] ELSE Missing

\* searchTerm && searchTerm.trim() !== ''
Searching(searchTerm) == Truthy(searchTerm) /\ trim(searchTerm) # <<>>

\* domain.charAt(0).toUpperCase() + domain.slice(1), on the selector's values.
AdjustDomain(domain) ==
  CASE domain = "overall" -> "Overall"
    [] domain = "archaeology" -> "Archaeology"
    [] domain = "astronomy" -> "Astronomy"
    [] domain = "biomedical" -> "Biomedical"
    [] domain = "environment" -> "Environment"
    [] domain = "legal" -> "Legal"
    [] domain = "wildfire" -> "Wildfire"
    [] OTHER -> domain

\* parseFloat(entry[key]) || 0
ScoreOf(entry, key) == OrZero(parseFloat(Field(entry, key)))

\* Mutant of HasScore: the filter reads the score as the sort does, with
\* `|| 0`, so a cell that is not a number counts as zero.
HasScore_NaNAsZero(entry, key) == ScoreOf(entry, key) >= 0

\* !isNaN(score) && score >= 0
NotNegative(score) == ~score.nan /\ score.v >= 0

\* The predicate of the validData filter: the row has a score for the column.
HasScore(entry, key) == NotNegative(parseFloat(Field(entry, key)))

\* The row objects of an array, as their indices.
Indices(data) == [i \in 1..Len(data) |-> i]

\* Array.prototype.sort (stable) of idxs, the comparator being the
\* difference of the elements' keys: keys[p] is the key of idxs[p].
StableSort(idxs, keys) ==
  [k \in 1..Len(idxs) |->
     idxs[CHOOSE p \in 1..Len(idxs) :
            k = 1 + Cardinality({q \in 1..Len(idxs) :
                      keys[q] < keys[p] \/ (keys[q] = keys[p] /\ q < p)})]]

\* Array.prototype.sort with the comparator scoreB - scoreA.
SortByScoreDesc(idxs, data, key) ==
  StableSort(idxs, [p \in 1..Len(idxs) |-> 0 - ScoreOf(data[idxs[p]], key)])

\* Mutant of AllValidData: the ranks are taken among the rows left by the
\* search filter.
AllValidData_Filtered(scored, validData, data, key) ==
  SortByScoreDesc(validData, data, key)

\* allValidData: every row with a score for the column, whether or not it
\* matches the search, sorted by score.
AllValidData(scored, validData, data, key) == SortByScoreDesc(scored, data, key)

\* `${entry.System}-${entry.Models}-${score.toFixed(3)}`
UniqueId(entry, key) ==
  Field(entry, "System") \o <<"-">> \o Field(entry, "Models")
    \o <<"-", ToString(toFixed3(ScoreOf(entry, key)))>>

\* The value a Map holds for a key set at the positions hits, in order: the
\* last one set; 0 stands for undefined.
LastSet(hits) ==
  IF hits = {} THEN 0 ELSE CHOOSE k \in hits : \A j \in hits : j <= k

\* originalRankMap.get(id) after the forEach over allValidData: a later entry
\* with the same id overwrites an earlier one.
RankMapGet(allValidData, data, key, id) ==
  LastSet({k \in 1..Len(allValidData) : UniqueId(data[allValidData[k]], key) = id})

\* rank || 999
Or999(rank) == IF rank = 0 THEN 999 ELSE rank

\* originalRankMap.get(id) || 999
RankOr999(allValidData, data, key, id) ==
  Or999(RankMapGet(allValidData, data, key, id))

\* Array.prototype.sort with the comparator rankA - rankB.
SortByRank(idxs, allValidData, data, key) ==
  StableSort(idxs, [p \in 1..Len(idxs) |->
                     RankOr999(allValidData, data, key, UniqueId(data[idxs[p]], key))])

\* ------------------------------------------------------------ table rows
\* A row of the table body.  kind is "data", "message", "error" or "markup"
\* (the page's own markup before the first render); entry is the index in
\* leaderboardData of the row object a data row was rendered from.
BlankRow ==
  [kind |-> "markup", text |-> "", entry |-> 0, rank |-> 0, cls |-> 0,
   system |-> <<>>, model |-> <<>>, score |-> 0]

MessageRow(text) == [BlankRow EXCEPT !.kind = "message", !.text = text]

\* 'Error loading leaderboard data: ' + error.message
ErrorRow(message) == [BlankRow EXCEPT !.kind = "error", !.text = message]

NoData == "No data available"

NoDomainData == "No data available for this domain"

NoMatch == "No matching results found"

\* Mutant of addTopPerformersStyling: the element is appended without the
\* guard.
addTopPerformersStyling_NoGuard(styleElements) == styleElements + 1

\* addTopPerformersStyling: the number of #top-performers-styles elements.
addTopPerformersStyling(styleElements) ==
  IF styleElements = 0 THEN 1 ELSE styleElements

\* The state displayLeaderboard reads and writes.
PageOf(data, term, body, status, styles) ==
  [leaderboardData |-> data, currentSearchTerm |-> term, tbody |-> body,
   filterStatus |-> status, styleElements |-> styles, threw |-> FALSE]

\* The <tr> of a data row: rank cell, medal class of the first three ranks,
\* name and model cells, score cell.
TableRow(i, rank, system, model, score) ==
  [kind |-> "data", text |-> "", entry |-> i, rank |-> rank,
   cls |-> IF rank \in 1..3 THEN rank ELSE 0,
   system |-> system, model |-> model, score |-> score]

\* The highlight of a cell's escaped text when a search is active.
Mark(searchTerm, t) ==
  IF Searching(searchTerm) THEN Highlight(RegExpOf(searchTerm), t) ELSE t

\* One table row of the part_000 renderer (the body of sortedData.forEach).
RenderEntry(i, data, key, allValidData, searchTerm) ==
  TableRow(i, RankMapGet(allValidData, data, key, UniqueId(data[i], key)),
           Mark(searchTerm, escapeHtml(Field(data[i], "System"))),
           Mark(searchTerm, escapeHtml(Field(data[i], "Models"))),
           toFixed1(ScoreOf(data[i], key)))

\* The status element after the search branch / the no-search branch.
FilterStatusOf(status, searchTerm, count) ==
  IF Searching(searchTerm)
  THEN [display |-> "block", text |-> count]
  ELSE [status EXCEPT !.display = "none"]

\* The search filter over validData.
MatchesSearch(entry, searchTerm) ==
  \/ includes(toLowerCase(OrEmpty(Field(entry, "System"))),
              toLowerCase(trim(searchTerm)))
  \/ includes(toLowerCase(OrEmpty(Field(entry, "Models"))),
              toLowerCase(trim(searchTerm)))

\* The message shown when validData is empty.
EmptyMessage(searchTerm) == NoMatch

\* sortedData: by global rank under a search, by score otherwise.
SortedData(validData, allValidData, data, key, searchTerm) ==
  IF Searching(searchTerm)
  THEN SortByRank(validData, allValidData, data, key)
  ELSE SortByScoreDesc(validData, data, key)

\* tbody after sortedData.forEach has appended a row per element.
RenderRows(sortedData, data, key, allValidData, searchTerm) ==
  [k \in 1..Len(sortedData) |->
     RenderEntry(sortedData[k], data, key, allValidData, searchTerm)]

\* Mutant of DisplaySorted: the stored array itself is filtered and sorted
\* to give allValidData.
DisplaySorted_InPlace(st, key, searchTerm, validData, allValidData) ==
  [st EXCEPT
     !.leaderboardData = [k \in 1..Len(allValidData) |-> @[allValidData[k]]],
     !.tbody = RenderRows(SortedData(validData, allValidData,
                                     st.leaderboardData, key, searchTerm),
                          st.leaderboardData, key, allValidData, searchTerm),
     !.styleElements = addTopPerformersStyling(st.styleElements)]

\* displayLeaderboard from the sort of allValidData on: the rank map, the
\* sort of the rows to show, the rows, the styling.
DisplaySorted(st, key, searchTerm, validData, allValidData) ==
  [st EXCEPT
     !.tbody = RenderRows(SortedData(validData, allValidData,
                                     st.leaderboardData, key, searchTerm),
                          st.leaderboardData, key, allValidData, searchTerm),
     !.styleElements = addTopPerformersStyling(st.styleElements)]

\* displayLeaderboard from the filter-status update on, validData being the
\* rows left by the score filter (scored) and then the search filter.  The
\* RegExp constructor throws in the first pass of the forEach, the table
\* body having been emptied.
DisplayValid(st, key, searchTerm, scored, validData) ==
  IF Len(validData) = 0
  THEN [st EXCEPT !.filterStatus = FilterStatusOf(@, searchTerm, Len(validData)),
                  !.tbody = <<MessageRow(EmptyMessage(searchTerm))>>]
  ELSE IF Searching(searchTerm) /\ RegExpOf(searchTerm) = SyntaxError
  THEN [st EXCEPT !.filterStatus = FilterStatusOf(@, searchTerm, Len(validData)),
                  !.tbody = <<>>, !.threw = TRUE]
  ELSE DisplaySorted(
         [st EXCEPT !.filterStatus = FilterStatusOf(@, searchTerm, Len(validData))],
         key, searchTerm, validData,
         AllValidData(scored, validData, st.leaderboardData, key))

\* displayLeaderboard from the search filter on, scored being the rows with a
\* score for the column.
DisplayScored(st, key, searchTerm, scored) ==
  DisplayValid(st, key, searchTerm, scored,
               IF Searching(searchTerm)
               THEN SelectSeq(scored, LAMBDA i :
                      MatchesSearch(st.leaderboardData[i], searchTerm))
               ELSE scored)

\* displayLeaderboard from the domain's column name on.
DisplayColumn(st, key, searchTerm) ==
  DisplayScored(st, key, searchTerm,
                SelectSeq(Indices(st.leaderboardData), LAMBDA i :
                  HasScore(st.leaderboardData[i], key)))

\* displayLeaderboard(domain, searchTerm) of part_000, on page state st.
displayLeaderboard(st, domain, searchTerm) ==
  IF Len(st.leaderboardData) = 0
  THEN [st EXCEPT !.tbody = <<MessageRow(NoData)>>, !.threw = FALSE]
  ELSE DisplayColumn([st EXCEPT !.currentSearchTerm = searchTerm, !.threw = FALSE],
                     AdjustDomain(domain), searchTerm)

\* One table row of the script.js renderer: rank and medal class by position.
\* (The runtime, date and link cells are functions of the entry alone and are
\* left out of the row.)
script_RenderEntry(i, k, data, domain) ==
  TableRow(i, k, escapeHtml(Field(data[i], "team")), <<>>,
           toFixed1(ScoreOf(data[i], domain)))

\* tbody after sortedData.forEach of script.js.
script_RenderRows(sortedData, data, domain) ==
  [k \in 1..Len(sortedData) |-> script_RenderEntry(sortedData[k], k, data, domain)]

\* displayLeaderboard of script.js from the score filter on.
script_DisplayValid(st, domain, validData) ==
  IF Len(validData) = 0
  THEN [st EXCEPT !.tbody = <<MessageRow(NoDomainData)>>, !.threw = FALSE]
  ELSE [st EXCEPT
          !.tbody = script_RenderRows(
                      SortByScoreDesc(validData, st.leaderboardData, domain),
                      st.leaderboardData, domain),
          !.styleElements = addTopPerformersStyling(st.styleElements),
          !.threw = FALSE]

\* displayLeaderboard(domain) of script.js, on page state st.
script_displayLeaderboard(st, domain) ==
  IF Len(st.leaderboardData) = 0
  THEN [st EXCEPT !.tbody = <<MessageRow(NoData)>>, !.threw = FALSE]
  ELSE script_DisplayValid(st, domain,
         SelectSeq(Indices(st.leaderboardData), LAMBDA i :
           HasScore(st.leaderboardData[i], domain)))

\* ------------------------------------------------------------ environment
\* The rows a fetched CSV file may hold, as Papa.parse returns them: names with
\* HTML and pattern metacharacters, equal scores, cells that
\* are negative, not numbers, empty or absent, and a row with a blank name.
OracleRows ==
  { [System |-> <<"A">>, Models |-> <<"m">>,
     Overall |-> <<"9", "0">>, Biomedical |-> <<"a", "b", "c">>],
    [System |-> <<"b">>, Models |-> <<"m">>,
     Overall |-> <<>>, Biomedical |-> <<"8">>],
    [System |-> <<"a", "&", "b">>, Models |-> <<"m">>,
     Overall |-> <<"9", "0">>, Biomedical |-> <<"7">>],
    [System |-> <<"a", "(">>, Models |-> <<"M">>,
     Overall |-> <<"8", "0">>, Biomedical |-> <<"9", ".", "5">>],
    [System |-> <<"A">>, Models |-> <<"m">>,
     Overall |-> <<"-", "5">>],
    [System |-> <<" ">>, Models |-> <<"m">>,
     Overall |-> <<"7", "0">>],
    [System |-> <<"b", ".">>, Models |-> <<"m">>,
     Overall |-> <<"6", "0">>] }

ScriptRows ==
  { [team |-> <<"A">>, overall |-> <<"9", "0">>, biomedical |-> <<"-", "5">>],
    [team |-> <<"b">>, overall |-> <<"8", "0">>, biomedical |-> <<"7">>],
    [team |-> <<"a", "&", "b">>, overall |-> <<"a", "b", "c">>],
    [team |-> <<"b">>, overall |-> <<"9", "0">>, biomedical |-> <<>>],
    [team |-> <<" ">>, overall |-> <<"7", "0">>] }

SeqsUpTo(S, n) == UNION {[1..m -> S] : m \in 0..n}

\* parsed.data of a response: every file of at most MaxRows rows.
ParsedFiles(v) ==
  SeqsUpTo(IF v = "oracle" THEN OracleRows ELSE ScriptRows, MaxRows)

\* The files the server of the event model answers with: an empty file, and
\* a file of a row with a blank name, a ranked row and a row whose name holds
\* a pattern metacharacter.
ServedFiles(v) ==
  IF v = "oracle"
  THEN { <<>>,
         << [System |-> <<" ">>, Models |-> <<"m">>,
             Overall |-> <<"7", "0">>],
            [System |-> <<"b">>, Models |-> <<"m">>,
             Overall |-> <<"8", "0">>, Biomedical |-> <<"7">>],
            [System |-> <<"a", "(">>, Models |-> <<"M">>,
             Overall |-> <<"9", ".", "5">>, Biomedical |-> <<>>] >> }
  ELSE { <<>>,
         << [team |-> <<" ">>, overall |-> <<"7", "0">>],
            [team |-> <<"b">>, overall |-> <<"8", "0">>, biomedical |-> <<"7">>],
            [team |-> <<"a", "&", "b">>, overall |-> <<"a", "b", "c">>] >> }

\* What the user types into the search box in the event model.
SearchTerms == {<<>>, <<"(">>}

\* The search terms the renderer is applied to: none, blank, a letter in the
\* other case with white space around it, a pattern group opener, the
\* pattern wildcard.
RenderTerms == {<<>>, <<" ">>, <<" ", "A">>, <<"(">>, <<".">>}

\* The values of the domain selector's options the model keeps (two of the
\* seven the page offers).
DomainOptions == {"overall", "biomedical"}

\* error.message of the failures a load can meet.
FetchFailed == "Failed to fetch"

HttpStatuses == {404, 500}

HttpErrorMessage(status) == "HTTP error! status: " \o ToString(status)

ParseFailed == "Unexpected end of input"

RegExpFailed == "Invalid regular expression"

\* --------------------------------------------------------------- state
VARIABLES
  variant,           \* "oracle": part_000; "script": script.js
  leaderboardData,   \* the stored dataset
  currentDomain,
  isOracleMode,
  currentSearchTerm,
  toggleChecked,     \* #oracle-toggle .checked
  title,             \* text of the section heading
  searchValue,       \* #search-input .value
  clearShown,        \* #clear-search is displayed
  debouncePending,   \* number of debounce timeouts scheduled and not yet fired
  inflight,          \* the loads awaiting their response, in start order
  tbody,             \* rows of #leaderboard-table tbody
  filterStatus,      \* #filter-status: display and text
  styleElements,     \* number of #top-performers-styles elements
  threw,             \* the last handler ended with an uncaught exception
  lastSubmitted,     \* history: the term the search controls submitted last
  loadedFrom,        \* history: the file whose response the dataset was
                     \* assigned from ("none" before the first assignment)
  lastLoadFailed     \* history: the load that completed last ran its catch

vars ==
  <<variant, leaderboardData, currentDomain, isOracleMode, currentSearchTerm,
    toggleChecked, title, searchValue, clearShown, debouncePending, inflight,
    tbody, filterStatus, styleElements, threw, lastSubmitted, loadedFrom,
    lastLoadFailed>>

Page == PageOf(leaderboardData, currentSearchTerm, tbody, filterStatus, styleElements)

\* const csvFile = isOracleMode ? ... : ...  (script.js has one fixed file)
CsvFile(v, oracleMode) ==
  IF v = "script" THEN "data/leaderboard.csv"
  ELSE IF oracleMode THEN "data/benchmark_oracle.csv"
  ELSE "data/benchmark_results.csv"

\* isOracleMode ? "Current Rankings (Oracle Inputs)" : "Current Rankings"
TitleOf(oracleMode) ==
  IF oracleMode THEN "Current Rankings (Oracle Inputs)" ELSE "Current Rankings"

\* Mutant of Identified: the filter tests the fields without trimming them.
Identified_NoTrim(v, d) ==
  IF v = "script"
  THEN Truthy(Field(d, "team"))
  ELSE Truthy(Field(d, "System")) /\ Truthy(Field(d, "Models"))

\* The rows a load keeps (the filter on parsed.data).
Identified(v, d) ==
  IF v = "script"
  THEN Truthy(Field(d, "team")) /\ trim(Field(d, "team")) # <<>>
  ELSE /\ Truthy(Field(d, "System")) /\ trim(Field(d, "System")) # <<>>
       /\ Truthy(Field(d, "Models")) /\ trim(Field(d, "Models")) # <<>>

\* The synchronous start of loadLeaderboard, up to its await: the request.
StartLoad(v, oracleMode) == [file |-> CsvFile(v, oracleMode)]

\* The variant's renderer, called with the stored search term by default.
Render(st, domain, searchTerm) ==
  IF variant = "script" THEN script_displayLeaderboard(st, domain)
  ELSE displayLeaderboard(st, domain, searchTerm)

\* The page once the DOMContentLoaded handler has run: the first load was
\* started with isOracleMode still false, then handleOracleToggle read the
\* checkbox as the page (or the browser's form restoration) left it.
Init ==
  /\ variant \in {"oracle", "script"}
  /\ leaderboardData = <<>>
  /\ currentDomain = "overall"
  /\ toggleChecked \in (IF variant = "oracle" THEN BOOLEAN ELSE {FALSE})
  /\ isOracleMode = toggleChecked
  /\ currentSearchTerm = <<>>
  /\ title = "markup"
  /\ searchValue = <<>>
  /\ clearShown = FALSE
  /\ debouncePending = 0
  /\ inflight = <<StartLoad(variant, FALSE)>>
  /\ tbody = <<BlankRow>>
  /\ filterStatus = [display |-> "markup", text |-> 0]
  /\ styleElements = 0
  /\ threw = FALSE
  /\ lastSubmitted = <<>>
  /\ loadedFrom = "none"
  /\ lastLoadFailed = FALSE

RemoveAt(s, k) == SubSeq(s, 1, k - 1) \o SubSeq(s, k + 1, Len(s))

\* The page variables after a render that returned page state r.
Shown(r) ==
  /\ leaderboardData' = r.leaderboardData
  /\ tbody' = r.tbody
  /\ filterStatus' = r.filterStatus
  /\ styleElements' = r.styleElements
  /\ currentSearchTerm' = r.currentSearchTerm
  /\ threw' = r.threw

\* The catch block of loadLeaderboard for an exception of the render.
Caught(r) ==
  IF r.threw
  THEN [r EXCEPT !.tbody = <<ErrorRow(RegExpFailed)>>, !.threw = FALSE]
  ELSE r

\* The rest of the try block once the dataset kept is assigned: the render.
StoreAndRender(kept) ==
  Shown(Caught(Render([Page EXCEPT !.leaderboardData = kept], currentDomain,
                      currentSearchTerm)))

\* ---------------------------------------------------------------- loader
\* Mutant of LoadSucceeds: the response of a load is dropped when a later
\* load has been started since.
LoadSucceeds_LatestOnly(k, parsed) ==
  /\ IF k = Len(inflight)
     THEN /\ StoreAndRender(SelectSeq(parsed, LAMBDA d : Identified(variant, d)))
          /\ loadedFrom' = inflight[k].file
     ELSE UNCHANGED <<leaderboardData, tbody, filterStatus, styleElements,
                      currentSearchTerm, threw, loadedFrom>>
  /\ inflight' = RemoveAt(inflight, k)
  /\ lastLoadFailed' = FALSE
  /\ UNCHANGED <<variant, currentDomain, isOracleMode, toggleChecked, title,
                 searchValue, clearShown, debouncePending, lastSubmitted>>

\* The response of load k arrives and parses: the rest of the try block.  An
\* exception of the render is caught by the loader's catch.
LoadSucceeds(k, parsed) ==
  /\ StoreAndRender(SelectSeq(parsed, LAMBDA d : Identified(variant, d)))
  /\ inflight' = RemoveAt(inflight, k)
  /\ loadedFrom' = inflight[k].file
  /\ lastLoadFailed' = FALSE
  /\ UNCHANGED <<variant, currentDomain, isOracleMode, toggleChecked, title,
                 searchValue, clearShown, debouncePending, lastSubmitted>>

\* Mutant of LoadFails: the catch block also empties the stored dataset.
LoadFails_DropsData(k, message) ==
  /\ tbody' = <<ErrorRow(message)>>
  /\ lastLoadFailed' = TRUE
  /\ leaderboardData' = <<>>
  /\ threw' = FALSE
  /\ inflight' = RemoveAt(inflight, k)
  /\ UNCHANGED <<variant, currentDomain, isOracleMode,
                 currentSearchTerm, toggleChecked, title, searchValue,
                 clearShown, debouncePending, filterStatus, styleElements,
                 lastSubmitted, loadedFrom>>

\* The catch block of loadLeaderboard for a failure before the dataset is
\* assigned: fetch rejected, response not ok, or the body / parse throwing.
LoadFails(k, message) ==
  /\ tbody' = <<ErrorRow(message)>>
  /\ lastLoadFailed' = TRUE
  /\ threw' = FALSE
  /\ inflight' = RemoveAt(inflight, k)
  /\ UNCHANGED <<variant, leaderboardData, currentDomain, isOracleMode,
                 currentSearchTerm, toggleChecked, title, searchValue,
                 clearShown, debouncePending, filterStatus, styleElements,
                 lastSubmitted, loadedFrom>>

FetchRejected == \E k \in 1..Len(inflight) : LoadFails(k, FetchFailed)

HttpError ==
  \E k \in 1..Len(inflight), status \in HttpStatuses :
    LoadFails(k, HttpErrorMessage(status))

ParseThrows == \E k \in 1..Len(inflight) : LoadFails(k, ParseFailed)

LoadResolves ==
  \E k \in 1..Len(inflight), parsed \in ServedFiles(variant) :
    LoadSucceeds(k, parsed)

\* A tick of setInterval(loadLeaderboard, 5 * 60 * 1000).
Refresh ==
  /\ Len(inflight) < MaxInflight
  /\ inflight' = Append(inflight, StartLoad(variant, isOracleMode))
  /\ threw' = FALSE
  /\ UNCHANGED <<variant, leaderboardData, currentDomain, isOracleMode,
                 currentSearchTerm, toggleChecked, title, searchValue,
                 clearShown, debouncePending, tbody, filterStatus,
                 styleElements, lastSubmitted,
                 loadedFrom, lastLoadFailed>>

\* -------------------------------------------------------------- controls
\* The change listener of #domain-selector.
DomainChange ==
  \E d \in DomainOptions \ {currentDomain} :
    /\ currentDomain' = d
    /\ Shown(Render(Page, d, currentSearchTerm))
    /\ UNCHANGED <<variant, isOracleMode, toggleChecked, title, searchValue,
                   clearShown, debouncePending, inflight, lastSubmitted,
                   loadedFrom, lastLoadFailed>>

\* Mutant of ModeSwitch: the load is started before the flag is assigned.
ModeSwitch_LoadFirst ==
  /\ variant = "oracle"
  /\ Len(inflight) < MaxInflight
  /\ toggleChecked' = ~toggleChecked
  /\ isOracleMode' = toggleChecked'
  /\ title' = TitleOf(isOracleMode')
  /\ inflight' = Append(inflight, StartLoad(variant, isOracleMode))
  /\ threw' = FALSE
  /\ UNCHANGED <<variant, leaderboardData, currentDomain, currentSearchTerm,
                 searchValue, clearShown, debouncePending, tbody, filterStatus,
                 styleElements, lastSubmitted,
                 loadedFrom, lastLoadFailed>>

\* toggleHandler, and the change listener after the browser has flipped the
\* checkbox: the flag follows the checkbox, the heading follows the flag, and
\* a load is started.
ModeSwitch ==
  /\ variant = "oracle"
  /\ Len(inflight) < MaxInflight
  /\ toggleChecked' = ~toggleChecked
  /\ isOracleMode' = toggleChecked'
  /\ title' = TitleOf(isOracleMode')
  /\ inflight' = Append(inflight, StartLoad(variant, isOracleMode'))
  /\ threw' = FALSE
  /\ UNCHANGED <<variant, leaderboardData, currentDomain, currentSearchTerm,
                 searchValue, clearShown, debouncePending, tbody, filterStatus,
                 styleElements, lastSubmitted,
                 loadedFrom, lastLoadFailed>>

\* A click on .toggle-container outside the checkbox.
ContainerClick == ModeSwitch

\* Enter or Space on .toggle-container.
ContainerKey == ModeSwitch

\* A click on the checkbox itself: its change listener.
CheckboxChange == ModeSwitch

\* A render asked for by the search controls with the given term.
SearchRender(term) ==
  /\ Shown(displayLeaderboard(Page, currentDomain, term))
  /\ lastSubmitted' = term
  /\ UNCHANGED <<variant, currentDomain, isOracleMode, toggleChecked, title,
                 inflight, loadedFrom, lastLoadFailed>>

\* Mutant of clearTimeout: the scheduled timeout is left to fire.
clearTimeout_Noop(timers) == timers

\* clearTimeout(debounceTimeout): debounceTimeout is the timeout scheduled
\* last, which is the last to fire; it is cancelled if it has not fired.
clearTimeout(timers) == IF timers > 0 THEN timers - 1 ELSE 0

\* setTimeout(..., 300): one more timeout is scheduled.
setTimeout(timers) == timers + 1

\* The input listener of #search-input: the pending timeout is cleared and a
\* new one scheduled.
SearchInput ==
  \E v \in SearchTerms \ {searchValue} :
    /\ variant = "oracle"
    /\ searchValue' = v
    /\ clearShown' = Truthy(v)
    /\ debouncePending' = setTimeout(clearTimeout(debouncePending))
    /\ threw' = FALSE
    /\ UNCHANGED <<variant, leaderboardData, currentDomain, isOracleMode,
                   currentSearchTerm, toggleChecked, title, inflight, tbody,
                   filterStatus, styleElements, lastSubmitted, loadedFrom,
                   lastLoadFailed>>

\* The debounce timeout fires, 300 ms after the last input event.
DebounceFires ==
  /\ variant = "oracle"
  /\ debouncePending > 0
  /\ debouncePending' = debouncePending - 1
  /\ SearchRender(searchValue)
  /\ UNCHANGED <<searchValue, clearShown>>

\* keydown Enter in #search-input.
SearchEnter ==
  /\ variant = "oracle"
  /\ SearchRender(searchValue)
  /\ UNCHANGED <<searchValue, clearShown, debouncePending>>

\* keydown Escape in #search-input.
SearchEscape ==
  /\ variant = "oracle"
  /\ searchValue' = <<>>
  /\ clearShown' = FALSE
  /\ SearchRender(<<>>)
  /\ UNCHANGED debouncePending

\* A click on #clear-search, which can be clicked while it is displayed.
ClearClick ==
  /\ variant = "oracle"
  /\ clearShown
  /\ searchValue' = <<>>
  /\ clearShown' = FALSE
  /\ SearchRender(<<>>)
  /\ UNCHANGED debouncePending

Next ==
  \/ LoadResolves
  \/ FetchRejected
  \/ HttpError
  \/ ParseThrows
  \/ Refresh
  \/ DomainChange
  \/ ContainerClick
  \/ ContainerKey
  \/ CheckboxChange
  \/ SearchInput
  \/ DebounceFires
  \/ SearchEnter
  \/ SearchEscape
  \/ ClearClick

Spec == Init /\ [][Next]_vars

\* ------------------------------------------------------- renderer alone
\* The renderer on every dataset, column and term: the page after its first
\* load has resolved with any file of at most MaxRows rows, the user having
\* typed a term while the load was in flight; then the controls that render.
Loaded(r) ==
  /\ leaderboardData = r.leaderboardData
  /\ tbody = r.tbody
  /\ filterStatus = r.filterStatus
  /\ styleElements = r.styleElements

FirstRender(kept) ==
  Loaded(Render(PageOf(kept, <<>>, <<BlankRow>>,
                       [display |-> "markup", text |-> 0], 0),
                "overall", <<>>))

RenderInit ==
  /\ variant \in {"oracle", "script"}
  /\ \E parsed \in ParsedFiles(variant) :
       FirstRender(SelectSeq(parsed, LAMBDA d : Identified(variant, d)))
  /\ currentDomain = "overall"
  /\ toggleChecked = FALSE
  /\ isOracleMode = FALSE
  /\ currentSearchTerm = <<>>
  /\ title = "markup"
  /\ searchValue \in (IF variant = "oracle" THEN RenderTerms ELSE {<<>>})
  /\ clearShown = Truthy(searchValue)
  /\ debouncePending = (IF Truthy(searchValue) THEN 1 ELSE 0)
  /\ inflight = <<>>
  /\ threw = FALSE
  /\ lastSubmitted = <<>>
  /\ loadedFrom = CsvFile(variant, FALSE)
  /\ lastLoadFailed = FALSE

RenderNext ==
  \/ DomainChange
  \/ DebounceFires
  \/ SearchEnter
  \/ SearchEscape
  \/ ClearClick

SpecRender == RenderInit /\ [][RenderNext]_vars

\* ================================================================ claims
\* The column the current domain selects in the stored rows.
ColumnKey == IF variant = "script" THEN currentDomain ELSE AdjustDomain(currentDomain)

\* The positions of the table body that hold data rows.
DataRows == {k \in 1..Len(tbody) : tbody[k].kind = "data"}

\* The stored rows valid for the selected column, by the claim's words: the
\* cell is present, is a number, and is not negative.
ValidForColumn ==
  {i \in 1..Len(leaderboardData) :
     LET cell == Field(leaderboardData[i], ColumnKey)
     IN  cell # Missing /\ ~parseFloat(cell).nan /\ parseFloat(cell).v >= 0}

\* C1: in both variants, with or without a search term, no rendered table
\* row belongs to a dataset row whose value in the selected column is
\* non-numeric, missing or negative, and the score shown is the parsed value
\* (such rows are excluded, never shown as zero).
C1_InvalidRowsNeverRendered ==
  \A k \in DataRows :
    /\ tbody[k].entry \in ValidForColumn
    /\ tbody[k].score =
         toFixed1(parseFloat(Field(leaderboardData[tbody[k].entry], ColumnKey)).v)

\* C1 witness: a search is active, a stored row is invalid for the column and
\* the table shows data rows.
C1_Witness ==
  /\ Searching(currentSearchTerm)
  /\ DataRows # {}
  /\ \E i \in 1..Len(leaderboardData) : i \notin ValidForColumn

\* The score of stored row i in the selected column.
ScoreAt(i) == parseFloat(Field(leaderboardData[i], ColumnKey)).v

\* C2: a render without a search term shows the rows valid for the column in
\* non-increasing score order, and the rank numbers shown top to bottom are
\* exactly 1, 2, ..., N, also when rows have equal scores or are identical in
\* name, model and score.
C2_RanksAreOneToN ==
  (~Searching(currentSearchTerm) /\ DataRows # {}) =>
    /\ Len(tbody) = Cardinality(ValidForColumn)
    /\ \A k \in 1..Len(tbody) : tbody[k].rank = k
    /\ \A k \in 1..(Len(tbody) - 1) :
         ScoreAt(tbody[k].entry) >= ScoreAt(tbody[k + 1].entry)

\* The table body a render of the stored dataset and current column shows
\* with an empty search term.
UnfilteredBody == displayLeaderboard(Page, currentDomain, <<>>).tbody

\* C3: each row that survives the search filter is displayed with the rank
\* number it has in the render of the same dataset and column with an empty
\* search term.
C3_FilterKeepsRank ==
  (variant = "oracle" /\ Searching(currentSearchTerm)) =>
    \A k \in DataRows :
      \E j \in 1..Len(UnfilteredBody) :
        /\ UnfilteredBody[j].entry = tbody[k].entry
        /\ UnfilteredBody[j].rank = tbody[k].rank

\* C3 witness: under a search the first displayed row has global rank 2: a
\* row ranked above it was filtered out.
C3_Witness ==
  /\ variant = "oracle"
  /\ Searching(currentSearchTerm)
  /\ DataRows # {}
  /\ tbody[1].rank = 2
  /\ Len(UnfilteredBody) > Len(tbody)

\* The text a cell shows: the highlight markers are elements and show
\* nothing, and a character reference is decoded where it stands whole in a
\* run of text.
RECURSIVE TextContent(_)
TextContent(h) ==
  LET starts(e) == Len(h) >= Len(e) /\ SubSeq(h, 1, Len(e)) = e
      rest(e) == SubSeq(h, Len(e) + 1, Len(h))
  IN  IF h = <<>> THEN <<>>
      ELSE IF Head(h) \in {MarkOpen, MarkClose} THEN TextContent(Tail(h))
      ELSE IF starts(EscapeChar("&")) THEN <<"&">> \o TextContent(rest(EscapeChar("&")))
      ELSE IF starts(EscapeChar("<")) THEN <<"<">> \o TextContent(rest(EscapeChar("<")))
      ELSE IF starts(EscapeChar(">")) THEN <<">">> \o TextContent(rest(EscapeChar(">")))
      ELSE <<Head(h)>> \o TextContent(Tail(h))

\* The markup of a cell: a tag, or a character that opens one.
MarkupOf(h) == {h[j] : j \in {i \in 1..Len(h) : h[i] \in {"<", MarkOpen, MarkClose}}}

\* C4: for every search term and displayed row, the name and model cells
\* hold no markup other than the highlight marker, and the text each cell
\* shows is exactly the row's name / model text.
C4_HighlightKeepsText ==
  variant = "oracle" =>
    \A k \in DataRows :
      LET entry == leaderboardData[tbody[k].entry]
      IN  /\ MarkupOf(tbody[k].system) \subseteq {MarkOpen, MarkClose}
          /\ MarkupOf(tbody[k].model) \subseteq {MarkOpen, MarkClose}
          /\ TextContent(tbody[k].system) = Field(entry, "System")
          /\ TextContent(tbody[k].model) = Field(entry, "Models")

\* The rows valid for the column that match the stored search term.
MatchingRows ==
  {i \in ValidForColumn :
     ~Searching(currentSearchTerm) \/ MatchesSearch(leaderboardData[i], currentSearchTerm)}

\* C5: the empty-state message follows the cause: 'no data' for an empty
\* dataset; 'no data available for this domain' when the dataset is not
\* empty and no row is valid for the column, with or without a search term;
\* 'no matching results' only when rows are valid for the column and none
\* matches the search term.
C5_EmptyStateByCause ==
  /\ Len(leaderboardData) = 0 => tbody = <<MessageRow(NoData)>>
  /\ (Len(leaderboardData) > 0 /\ ValidForColumn = {}) =>
       tbody = <<MessageRow(NoDomainData)>>
  /\ tbody = <<MessageRow(NoMatch)>> =>
       (ValidForColumn # {} /\ MatchingRows = {} /\ Searching(currentSearchTerm))

\* The table body is one error row with the given message text.
ShowsError(body, message) ==
  Len(body) = 1 /\ body[1].kind = "error" /\ body[1].text = message

C7_TableAlwaysDefined ==
  /\ ~threw
  /\ Len(tbody) >= 1
  /\ \/ \A k \in 1..Len(tbody) : tbody[k].kind = "data"
     \/ Len(tbody) = 1 /\ tbody[1].kind \in {"error", "markup"}
     \/ /\ Len(tbody) = 1
        /\ tbody[1].kind = "message"
        /\ tbody[1].text \in {NoData, NoDomainData, NoMatch}

\* The fixed resource of a mode.
ResourceOf(flag) ==
  IF flag THEN "data/benchmark_oracle.csv" ELSE "data/benchmark_results.csv"

\* C8: every load started, by a mode switch or by the timer, requests the
\* resource of the mode flag as it is when the load is invoked: after a mode
\* switch, the resource of the new mode.
C8_LoadRequestsCurrentMode ==
  [][ (variant = "oracle" /\ Len(inflight') > Len(inflight)) =>
        /\ Len(inflight') = Len(inflight) + 1
        /\ inflight'[Len(inflight')].file = ResourceOf(isOracleMode')
        /\ (ModeSwitch => isOracleMode' = ~isOracleMode)
    ]_vars

\* C8 witness: a mode switch to oracle mode has started a load of the oracle
\* file while the load of the results file is still in flight.
C8_Witness ==
  /\ variant = "oracle"
  /\ isOracleMode
  /\ title = "Current Rankings (Oracle Inputs)"
  /\ Len(inflight) = 2
  /\ inflight[1].file = "data/benchmark_results.csv"
  /\ inflight[2].file = "data/benchmark_oracle.csv"

\* What of the page a render writes.
Visible(st) == <<st.tbody, st.filterStatus, st.styleElements>>

\* C9: rendering is idempotent: a second displayLeaderboard with the same
\* stored dataset, column and search term leaves the table body, the
\* filter-status message and the injected style elements as the first left
\* them.
C9_RenderIdempotent ==
  \A d \in DomainOptions, t \in RenderTerms :
    LET once == Render(Page, d, t)
        twice == Render(once, d, t)
    IN  Visible(twice) = Visible(once)

\* C9 witness: the page shows data rows under a search, the style element is
\* injected, and the table is what a render of the stored state gives.
C9_Witness ==
  /\ Searching(currentSearchTerm)
  /\ DataRows # {}
  /\ styleElements = 1
  /\ tbody = Render(Page, currentDomain, currentSearchTerm).tbody

\* C10: every render triggered by a domain change or by a completed load
\* uses the search term most recently submitted by the search controls,
\* including a term submitted while the stored dataset was still empty.  (A
\* render of a dataset that is not empty stores the term it used.)
C10_RenderUsesSubmittedTerm ==
  [][ ((DomainChange \/ LoadResolves) /\ Len(leaderboardData') > 0) =>
        currentSearchTerm' = lastSubmitted
    ]_vars

\* The text is present and holds a character that is not white space.
NonBlank(t) == t # Missing /\ \E j \in 1..Len(t) : t[j] # " "

\* The fields that identify a row of the variant.
IdentifyingFields == IF variant = "script" THEN {"team"} ELSE {"System", "Models"}

\* C11: in every reachable state every row of the stored dataset has its
\* identifying fields (team in script.js; System and Models in part_000)
\* present and non-blank; rows lacking one are dropped by the load.
C11_StoredRowsIdentified ==
  \A i \in 1..Len(leaderboardData) :
    \A f \in IdentifyingFields : NonBlank(Field(leaderboardData[i], f))

\* C11 witness: a load has stored the two identified rows of the served file
\* of three rows, whose first row has a blank name, and rendered them.
C11_Witness ==
  /\ Len(leaderboardData) = 2
  /\ DataRows # {}
  /\ \E parsed \in ServedFiles(variant) :
       /\ Len(parsed) = 3
       /\ \E f \in IdentifyingFields : ~NonBlank(Field(parsed[1], f))
       /\ leaderboardData = Tail(parsed)

\* The table a load shows once it has stored the dataset data: the render
\* with the current column and stored term, or the catch block's error row.
TableOfLoad(data) ==
  Caught(Render(PageOf(data, currentSearchTerm, tbody, filterStatus, styleElements),
                currentDomain, currentSearchTerm)).tbody

\* The rows of a response that have their identifying fields.
KeptOf(parsed) ==
  SelectSeq(parsed, LAMBDA d : \A f \in IdentifyingFields : NonBlank(Field(d, f)))

\* C12: whichever of the loads in flight resolves, first or last started, its
\* response becomes the stored dataset and the displayed table: so after two
\* overlapping loads have resolved, in either order, the dataset and table
\* are those of the response that resolved last.
C12_LastResponseWins ==
  [][ LoadResolves =>
        \E k \in 1..Len(inflight), parsed \in ServedFiles(variant) :
          /\ inflight' = RemoveAt(inflight, k)
          /\ loadedFrom' = inflight[k].file
          /\ leaderboardData' = KeptOf(parsed)
          /\ tbody' = TableOfLoad(KeptOf(parsed))
    ]_vars

\* C12 witness: two loads overlapped and the one started first (of the
\* results file, before the switch to oracle mode) resolved last: nothing is
\* in flight and the stored rows are those of its response.
C12_Witness ==
  /\ variant = "oracle"
  /\ title = "Current Rankings (Oracle Inputs)"
  /\ isOracleMode
  /\ inflight = <<>>
  /\ ~lastLoadFailed
  /\ loadedFrom = "data/benchmark_results.csv"
  /\ Len(leaderboardData) > 0
  /\ DataRows # {}

\* C13: whenever no fetch is in flight and the load that completed last
\* succeeded, the stored dataset was loaded from the resource of the current
\* mode flag.
C13_DataMatchesMode ==
  (variant = "oracle" /\ inflight = <<>> /\ loadedFrom # "none" /\ ~lastLoadFailed) =>
    loadedFrom = ResourceOf(isOracleMode)

\* C14: at most one debounced search task is pending at any time; when it
\* fires none is left pending (a burst of input events ends in one debounced
\* render), and that render is the renderer applied to the value the search
\* box holds when the task fires.
C14_OneDebouncedRender ==
  [][ /\ debouncePending' <= 1
      /\ DebounceFires =>
           /\ debouncePending' = 0
           /\ lastSubmitted' = searchValue
           /\ tbody' = displayLeaderboard(Page, currentDomain, searchValue).tbody
    ]_vars

\* C14 witness: the debounced task has fired with the term in the search box
\* and rendered it over a stored dataset; nothing is pending.
C14_Witness ==
  /\ variant = "oracle"
  /\ debouncePending = 0
  /\ searchValue = <<"(">>
  /\ lastSubmitted = searchValue
  /\ currentSearchTerm = searchValue
  /\ Len(leaderboardData) > 0

\* text contains term as a substring, letter case ignored.
ContainsIgnoringCase(text, term) ==
  \E i \in 1..(Len(text) - Len(term) + 1) :
    \A j \in 1..Len(term) : LowerChar(text[i + j - 1]) = LowerChar(term[j])

\* The stored rows valid for the column whose name or model contains the
\* trimmed stored term.
RowsContainingTerm ==
  {i \in ValidForColumn :
     \/ ContainsIgnoringCase(Field(leaderboardData[i], "System"), trim(currentSearchTerm))
     \/ ContainsIgnoringCase(Field(leaderboardData[i], "Models"), trim(currentSearchTerm))}

\* The position of stored row i in the render without a search term.
GlobalPosition(i) ==
  CHOOSE j \in 1..Len(UnfilteredBody) : UnfilteredBody[j].entry = i

\* The rows shown are exactly the rows containing the term, each once, in
\* the order of the render without a search term.
ShowsMatchesInGlobalOrder ==
  /\ {tbody[k].entry : k \in DataRows} = RowsContainingTerm
  /\ Cardinality(DataRows) = Cardinality(RowsContainingTerm)
  /\ \A k \in DataRows, l \in DataRows :
       k < l => /\ GlobalPosition(tbody[k].entry) < GlobalPosition(tbody[l].entry)
                /\ tbody[k].rank <= tbody[l].rank

\* C15: with a non-blank search term, the displayed rows are exactly the
\* rows valid for the column whose name or model contains the trimmed term
\* as a case-insensitive substring, in ascending order of global rank.
C15_SearchShowsMatchesByRank ==
  (variant = "oracle" /\ Searching(currentSearchTerm)) => ShowsMatchesInGlobalOrder

\* term occurs at the start of text, letter case ignored.
OccursAtStart(term, text) ==
  /\ Len(term) > 0
  /\ Len(text) >= Len(term)
  /\ \A j \in 1..Len(term) : LowerChar(text[j]) = LowerChar(term[j])

\* The cell of a name with the occurrences of the literal term wrapped in the
\* highlight marker, left to right, the text escaped for HTML.
RECURSIVE LiteralHighlight(_, _)
LiteralHighlight(term, text) ==
  IF text = <<>> THEN <<>>
  ELSE IF OccursAtStart(term, text)
       THEN <<MarkOpen>> \o EscapeText(SubSeq(text, 1, Len(term))) \o <<MarkClose>>
            \o LiteralHighlight(term, SubSeq(text, Len(term) + 1, Len(text)))
       ELSE EscapeChar(Head(text)) \o LiteralHighlight(term, Tail(text))

\* C16: under a search, in every displayed row the highlighted segments of
\* the name and model cells are exactly the case-insensitive occurrences of
\* the trimmed term, taken as a literal string, in the name / model text.
C16_HighlightIsLiteral ==
  (variant = "oracle" /\ Searching(currentSearchTerm)) =>
    \A k \in DataRows :
      /\ tbody[k].system =
           LiteralHighlight(trim(currentSearchTerm),
                            Field(leaderboardData[tbody[k].entry], "System"))
      /\ tbody[k].model =
           LiteralHighlight(trim(currentSearchTerm),
                            Field(leaderboardData[tbody[k].entry], "Models"))

\* C17: the loader is the only writer of the stored dataset: a render
\* returns the dataset as it was given, and every step other than the
\* completion of a load (the steps of the domain-change handler, the search
\* handlers, the toggle handlers and the timer) leaves it unchanged, same
\* rows in the same order; the renders leave the current domain and the mode
\* flag unchanged, which only the domain-change handler and the toggle
\* handlers write.
C17_OnlyLoaderWritesDataset ==
  [][ /\ Render(Page, currentDomain, currentSearchTerm).leaderboardData = leaderboardData
      /\ Len(inflight') >= Len(inflight) => leaderboardData' = leaderboardData
      /\ currentDomain' # currentDomain => DomainChange
      /\ isOracleMode' # isOracleMode => ModeSwitch
    ]_vars

\* C17 witness: the domain-change handler has rendered the Biomedical column,
\* for which one of the two stored rows is shown; both rows are still stored.
C17_Witness ==
  /\ currentDomain = "biomedical"
  /\ Len(leaderboardData) = 2
  /\ Cardinality(DataRows) = 1

\* C18: the page holds at most one injected top-performers style element,
\* and holds it whenever data rows have been displayed: the first render that
\* displays data rows inserts it and no later call inserts another.
C18_OneStyleElement ==
  /\ styleElements <= 1
  /\ DataRows # {} => styleElements = 1

\* C18 witness: the first render displayed rows of the Overall column and a
\* later render, after a domain change, displays rows of the Biomedical
\* column: addTopPerformersStyling has been called twice.
C18_Witness ==
  /\ currentDomain = "biomedical"
  /\ DataRows # {}
  /\ styleElements = 1
  /\ \E i \in 1..Len(leaderboardData) :
       LET n == parseFloat(Field(leaderboardData[i],
                                 IF variant = "script" THEN "overall" ELSE "Overall"))
       IN  ~n.nan /\ n.v >= 0

\* The global rank of stored row i: its place among the rows valid for the
\* column in descending score order, rows of equal score in dataset order.
GlobalRank(i) ==
  1 + Cardinality({j \in ValidForColumn :
                     \/ ScoreAt(j) > ScoreAt(i)
                     \/ ScoreAt(j) = ScoreAt(i) /\ j < i})

\* C19: a displayed row carries the medal class rank-k exactly when its
\* global rank k is 1, 2 or 3, with or without a search filter, and no two
\* rows of a render carry the same medal class.
C19_MedalFollowsGlobalRank ==
  /\ \A k \in DataRows :
       tbody[k].cls = (IF GlobalRank(tbody[k].entry) \in 1..3
                       THEN GlobalRank(tbody[k].entry) ELSE 0)
  /\ \A k \in DataRows, l \in DataRows :
       (k # l /\ tbody[k].cls # 0) => tbody[k].cls # tbody[l].cls

\* The table body is the loader's single error row.
IsErrorRow(body) == Len(body) = 1 /\ body[1].kind = "error"

\* C20: the refresh timer is never cancelled: a periodic load can always be
\* started (up to the bound on loads in flight); and when the table shows the
\* error row and a load's fetch succeeds, the error row is replaced by a
\* render of the newly loaded dataset.
C20_RefreshReplacesErrorRow ==
  [][ /\ Len(inflight) < MaxInflight => ENABLED Refresh
      /\ (LoadResolves /\ IsErrorRow(tbody)) =>
           /\ ~IsErrorRow(tbody')
           /\ tbody' = Render(Page', currentDomain, currentSearchTerm).tbody
    ]_vars

====
